---- MODULE Spec2Model ----
(***************************************************************************)
(* Sports Health Centers API (main.py) with its two HTTP clients, the      *)
(* rule-based agent (agent.py) and the tool bridge (mcp_server.py).        *)
(*                                                                         *)
(* Text is a sequence of one-character strings, so that str.lower, the     *)
(* `in` operator, str.split and str.strip are computed character by        *)
(* character.  Coordinates are integers in 1e-5 degree, distances integers *)
(* in 1e-4 km, and distance_km (round(distance, 2)) an integer in 0.01 km. *)
(***************************************************************************)
EXTENDS Integers, Sequences, FiniteSets, TLC

VARIABLES
    source,     \* sportsantecvl.json as found at start-up
    centers,    \* main.py: the module-level list `centers`
    pc,         \* service: "boot", "crashed", "idle", "responded", "repeated"
    req,        \* the request being served (endpoint and parameters)
    resp,       \* the response to req
    prev,       \* history: the response to the first issue of a repeated req
    handlerRan, \* history: the endpoint function was entered for req
    cpc,        \* client: position in agent() / a bridge tool
    call,       \* client: the invocation (collaborator, question or tool)
    gets,       \* client: HTTP GETs issued by the invocation so far
    net,        \* client: outcome of the GET ("none","ok","unreachable","status")
    printed,    \* client: results were rendered
    raised      \* client: an exception reached the collaborator's caller

vars == <<source, centers, pc, req, resp, prev, handlerRan,
          cpc, call, gets, net, printed, raised>>

\* ------------------------------------------------------------------ bounds

\* Longest collection the model loads.
MaxCenters == 3

\* ---------------------------------------------------------- Python strings

UpperChars == <<"A","B","C","D","E","F","G","H","I","J","K","L","M",
                "N","O","P","Q","R","S","T","U","V","W","X","Y","Z">>
LowerChars == <<"a","b","c","d","e","f","g","h","i","j","k","l","m",
                "n","o","p","q","r","s","t","u","v","w","x","y","z">>
DigitChars == <<"0","1","2","3","4","5","6","7","8","9">>

\* Characters str.strip() removes (the ASCII ones).
Whitespace == {" ", "\t", "\n", "\r", "\f"}

\* The characters of the model in code-point order: index i holds the
\* character, CodePoints[i] its code point.
CharTable == <<"\t", "\n", "\f", "\r", " ", "'", "-", ".", "/">>
                 \o DigitChars \o UpperChars \o LowerChars
CodePoints == <<9, 10, 12, 13, 32, 39, 45, 46, 47>>
                 \o [i \in 1..10 |-> 47 + i]
                 \o [i \in 1..26 |-> 64 + i]
                 \o [i \in 1..26 |-> 96 + i]

\* ord(c)
Ord(c) == CodePoints[CHOOSE i \in 1..Len(CharTable) : CharTable[i] = c]

\* str.lower() on one character.
LowerChar(c) ==
    IF \E i \in 1..26 : UpperChars[i] = c
    THEN LowerChars[CHOOSE i \in 1..26 : UpperChars[i] = c]
    ELSE c

\* s.lower()
Lower(s) == [i \in 1..Len(s) |-> LowerChar(s[i])]

\* sub in s
Contains(sub, s) ==
    \E i \in 0..(Len(s) - Len(sub)) : SubSeq(s, i + 1, i + Len(sub)) = sub

\* s.find(sep) + 1, or 0 when sep does not occur
Find(sep, s) ==
    IF Contains(sep, s)
    THEN 1 + CHOOSE i \in 0..(Len(s) - Len(sep)) :
                /\ SubSeq(s, i + 1, i + Len(sep)) = sep
                /\ \A j \in 0..(i - 1) : SubSeq(s, j + 1, j + Len(sep)) # sep
    ELSE 0

\* s.split(sep), sep non-empty
RECURSIVE Split(_, _)
Split(s, sep) ==
    LET k == Find(sep, s)
    IN  IF k = 0 THEN <<s>>
        ELSE <<SubSeq(s, 1, k - 1)>> \o Split(SubSeq(s, k + Len(sep), Len(s)), sep)

\* s.strip()
Strip(s) ==
    LET keep == {i \in 1..Len(s) : s[i] \notin Whitespace}
    IN  IF keep = {} THEN <<>>
        ELSE SubSeq(s, CHOOSE i \in keep : \A j \in keep : i <= j,
                       CHOOSE i \in keep : \A j \in keep : j <= i)

\* s < t for str: code-point lexicographic order, a proper prefix first
StrLess(s, t) ==
    \E k \in 1..(Len(t)) :
        /\ k <= Len(s) + 1
        /\ \A j \in 1..(k - 1) : s[j] = t[j]
        /\ \/ k = Len(s) + 1
           \/ k <= Len(s) /\ Ord(s[k]) < Ord(t[k])

\* sorted(S) for a set of str
RECURSIVE SortedStrs(_)
SortedStrs(S) ==
    IF S = {} THEN <<>>
    ELSE LET m == CHOOSE x \in S : \A y \in S \ {x} : StrLess(x, y)
         IN  <<m>> \o SortedStrs(S \ {m})

\* ------------------------------------------------------------- the dataset

\* Keys of a Center record of sportsantecvl.json.  "Pathologies" stands for
\* the key "Pathologies / Prevention" (its e carries an accent in the file).
CenterKeys == {"id", "Name", "Description", "Discipline", "Pathologies",
               "address", "lat", "lng"}

Center(id, name, descr, disc, patho, addr, lat, lng) ==
    [id |-> id, Name |-> name, Description |-> descr, Discipline |-> disc,
     Pathologies |-> patho, address |-> addr, lat |-> lat, lng |-> lng]

\* Records the model builds collections from.
Pool == <<
    Center(<<"c", "1">>, <<"T", "e", "n", "n", "i", "s", " ", "C", "l", "u", "b">>, <<"S", "p", "o", "r", "t", " ", "s", "a", "n", "t", "e">>,
           <<"T", "e", "n", "n", "i", "s", "\r", "\n", "B", "a", "s", "k", "e", "t", "\r", "\n">>, <<"C", "a", "n", "c", "e", "r", "\r", "\n", "D", "i", "a", "b", "e", "t", "e", "\r", "\n">>,
           <<"T", "o", "u", "r", "s">>, <<"4", "7", ".", "3", "9">>, <<"0", ".", "6", "9">>),
    Center(<<"c", "2">>, <<"A", "S", " ", "T", "o", "u", "r", "s">>, <<"c", "l", "u", "b", " ", "d", "e", " ", "b", "a", "s", "k", "e", "t">>,
           <<"T", "e", "n", "n", "i", "s", "\r", "\n">>, <<"C", "a", "n", "c", "e", "r", "\r", "\n">>,
           <<"T", "o", "u", "r", "s">>, <<"4", "7", ".", "3", "9", "0", "0", "3">>, <<"0", ".", "6", "9">>),
    Center(<<"c", "3">>, <<"P", "i", "n", "g", " ", "B", "l", "o", "i", "s">>, <<>>,
           <<"T", "e", "n", "n", "i", "s", " ", "d", "e", " ", "t", "a", "b", "l", "e", "\r", "\n", "Y", "o", "g", "a">>, <<" ", "\r", "\n", "O", "b", "e", "s", "i", "t", "e", " ", "\r", "\n">>,
           <<"B", "l", "o", "i", "s">>, <<"4", "7", ".", "5", "9">>, <<"1", ".", "3", "3">>),
    Center(<<"c", "4">>, <<"N", "a", "t", "a", "t", "i", "o", "n">>, <<"T", "E", "N", "N", "I", "S", " ", "l", "o", "i", "s", "i", "r">>,
           <<"N", "a", "t", "a", "t", "i", "o", "n", "\r", "\n", "\r", "\n", "b", "a", "s", "k", "e", "t">>, <<"c", "a", "n", "c", "e", "r", "\n", "s", "e", "i", "n">>,
           <<"O", "r", "l", "e", "a", "n", "s">>, <<"4", "7", ".", "9", "0">>, <<"1", ".", "9", "1">>),
    Center(<<"c", "5">>, <<"Y", "o", "g", "a">>, <<"z", "e", "n">>,
           <<>>, <<"D", "i", "a", "b", "e", "t", "e", "\r">>,
           <<"T", "o", "u", "r", "s">>, <<"4", "7", ".", "3", "9">>, <<"0", ".", "6", "9">>) >>

\* Sequences of distinct Pool records, at most MaxCenters long.
RECURSIVE Collections(_)
Collections(n) ==
    IF n = 0 THEN {<<>>}
    ELSE LET shorter == Collections(n - 1)
         IN  shorter \cup
             {Append(x[1], Pool[x[2]]) :
                 x \in {y \in shorter \X (1..Len(Pool)) :
                           /\ Len(y[1]) = n - 1
                           /\ \A j \in 1..Len(y[1]) : y[1][j] # Pool[y[2]]}}

\* Records json.load accepts that are not Center-shaped: a key is missing, or
\* a coordinate is not a number.
IllShaped == <<
    [id |-> <<"x", "1">>, Name |-> <<"S", "a", "n", "s", " ", "c", "o", "o", "r", "d", "o", "n", "n", "e", "e", "s">>],
    [id |-> <<"x", "2">>, Name |-> <<"T", "e", "n", "n", "i", "s">>, Description |-> <<>>,
     Discipline |-> <<"T", "e", "n", "n", "i", "s">>, Pathologies |-> <<>>, address |-> <<>>,
     lat |-> <<"a", "b", "c">>, lng |-> <<"0", ".", "6", "9">>],
    [Name |-> <<"S", "a", "n", "s", " ", "i", "d">>, Description |-> <<>>, Discipline |-> <<>>,
     Pathologies |-> <<>>, address |-> <<>>, lat |-> <<"4", "7", ".", "3", "9">>,
     lng |-> <<"0", ".", "6", "9">>] >>

\* --------------------------------------------------------------------- geo

DigitValue(c) == (CHOOSE i \in 1..10 : DigitChars[i] = c) - 1

IsDigits(s) == \A i \in 1..Len(s) : \E d \in 1..10 : DigitChars[d] = s[i]

RECURSIVE DigitsValue(_)
DigitsValue(s) ==
    IF s = <<>> THEN 0
    ELSE 10 * DigitsValue(SubSeq(s, 1, Len(s) - 1)) + DigitValue(s[Len(s)])

\* float(text) for a plain decimal ([-]digits[.digits]), in 1e-5 degree;
\* ok = FALSE is float() raising ValueError.  Digits past the fifth decimal
\* are below the model's resolution.
Decimal(whole, frac) ==
    [ok  |-> IsDigits(whole) /\ IsDigits(frac) /\ Len(whole) + Len(frac) > 0,
     val |-> IF IsDigits(whole) /\ IsDigits(frac)
             THEN DigitsValue(whole) * 100000
                  + DigitsValue(SubSeq(frac \o <<"0", "0", "0", "0", "0">>, 1, 5))
             ELSE 0]

SplitAtDot(body, dot) ==
    IF dot = 0 THEN Decimal(body, <<>>)
    ELSE Decimal(SubSeq(body, 1, dot - 1), SubSeq(body, dot + 1, Len(body)))

Unsigned(body) == SplitAtDot(body, Find(<<".">>, body))

Negated(p) == [ok |-> p.ok, val |-> 0 - p.val]

Signed(s) ==
    IF Len(s) > 0 /\ s[1] = "-" THEN Negated(Unsigned(Tail(s))) ELSE Unsigned(s)

ParseFloat(text) == Signed(Strip(text))

\* haversine_distance evaluated in IEEE double arithmetic with R = 6371 on
\* the coordinates of the model, floored to 1e-4 km.
\* Key: <<lat1, lon1, lat2, lon2>> in 1e-5 degree.
HaversineTable ==
       <<4739000, 69000, 4739000, 69000>> :> 0 @@
       <<4739000, 69000, 4739003, 69000>> :> 33 @@
       <<4739000, 69000, 4759000, 133000>> :> 529805 @@
       <<4739000, 69000, 4790000, 191000>> :> 1075578 @@
       <<4759000, 69000, 4739000, 69000>> :> 222389 @@
       <<4759000, 69000, 4739003, 69000>> :> 222356 @@
       <<4759000, 69000, 4759000, 133000>> :> 479955 @@
       <<4759000, 69000, 4790000, 191000>> :> 975148

haversine_distance(lat1, lon1, lat2, lon2) ==
    HaversineTable[<<lat1, lon1, lat2, lon2>>]

\* n km in the unit of haversine_distance (1e-4 km)
Km(n) == n * 10000

\* round(distance, 2), in 0.01 km
Round2(distance) == (distance + 50) \div 100

\* ------------------------------------------------- requests and responses

\* An optional parameter is <<>> when absent and <<v>> when given.
Given(p) == p # <<>>
Value(p, default) == IF Given(p) THEN p[1] ELSE default

Req(ep, limit, offset, id, q, name, lat, lng, radius_km) ==
    [ep |-> ep, limit |-> limit, offset |-> offset, id |-> id, q |-> q,
     name |-> name, lat |-> lat, lng |-> lng, radius_km |-> radius_km]

NoReq == Req("none", <<>>, <<>>, <<>>, <<>>, <<>>, <<>>, <<>>, <<>>)

\* A response: the HTTP status and the JSON body.  kind tells the body's
\* shape: "root", "page" {total, limit, offset, data}, "center" (one record,
\* in data), "filter" {count, data}, "tokens" {count, items}, "nearby"
\* {count, data}, "error" {detail}.
Response(status, kind, total, count, data, items, detail) ==
    [status |-> status, kind |-> kind, total |-> total, count |-> count,
     data |-> data, items |-> items, detail |-> detail]

NoResp == Response(0, "none", 0, 0, <<>>, <<>>, <<>>)

\* FastAPI's answer to a request that fails a Query(...) constraint: the
\* endpoint function is not called.
ValidationFault(param) ==
    Response(422, "error", 0, 0, <<>>, <<>>, param)

\* An exception other than HTTPException leaving an endpoint function.
InternalError ==
    Response(500, "error", 0, 0, <<>>, <<>>, <<"I", "n", "t", "e", "r", "n", "a", "l", " ", "S", "e", "r", "v", "e", "r", " ", "E", "r", "r", "o", "r">>)

DefaultLimit == 100
MinLimit == 1
MaxLimit == 500
DefaultOffset == 0
MinOffset == 0
MinQLength == 2
DefaultRadiusKm == 50
MinRadiusKm == 1
MaxRadiusKm == 500

\* lt=500 in place of le=500
LimitInRangeOpen(limit) == MinLimit <= limit /\ limit < MaxLimit

\* limit: Query(ge=1, le=500)
LimitInRange(limit) == MinLimit <= limit /\ limit <= MaxLimit

\* The Query(...) declarations: the parameter a request is rejected for, or
\* <<>> when it passes.
Rejected(r) ==
    CASE r.ep = "centers" ->
            IF Given(r.limit) /\ ~LimitInRange(r.limit[1]) THEN <<"l", "i", "m", "i", "t">>
            ELSE IF Given(r.offset) /\ r.offset[1] < MinOffset THEN <<"o", "f", "f", "s", "e", "t">>
            ELSE <<>>
      [] r.ep = "search" ->
            IF ~Given(r.q) \/ Len(r.q[1]) < MinQLength THEN <<"q">> ELSE <<>>
      [] r.ep \in {"discipline", "pathology"} ->
            IF ~Given(r.name) THEN <<"n", "a", "m", "e">> ELSE <<>>
      [] r.ep = "nearby" ->
            IF ~Given(r.lat) THEN <<"l", "a", "t">>
            ELSE IF ~Given(r.lng) THEN <<"l", "n", "g">>
            ELSE IF /\ Given(r.radius_km)
                    /\ ~(/\ Km(MinRadiusKm) <= r.radius_km[1]
                         /\ r.radius_km[1] <= Km(MaxRadiusKm))
                 THEN <<"r", "a", "d", "i", "u", "s", "_", "k", "m">>
            ELSE <<>>
      [] OTHER -> <<>>

\* ------------------------------------------------------ endpoint functions

Min(a, b) == IF a <= b THEN a ELSE b

\* centers[offset:limit] in place of centers[offset:offset + limit]
SliceToLimit(s, start, stop) == SubSeq(s, start + 1, Min(stop - start, Len(s)))

\* s[start:stop] for 0 <= start, 0 <= stop
Slice(s, start, stop) ==
    IF Min(start, Len(s)) >= Min(stop, Len(s)) THEN <<>>
    ELSE SubSeq(s, start + 1, Min(stop, Len(s)))

\* GET /
root == Response(200, "root", Len(centers), 0, <<>>, <<>>, <<>>)

\* GET /centers
get_all_centers(limit, offset) ==
    Response(200, "page", Len(centers), 0,
             Slice(centers, offset, offset + limit), <<>>, <<>>)

\* center_id in center["id"] in place of ==
IdContains(center, center_id) == Contains(center_id, center.id)

\* center["id"] == center_id
IdEquals(center, center_id) == center.id = center_id

\* GET /centers/{center_id}: the scan stops at the first record that matches
\* or that has no "id" (KeyError).
get_center_by_id(center_id) ==
    LET stop == {i \in 1..Len(centers) :
                    \/ "id" \notin DOMAIN centers[i]
                    \/ IdEquals(centers[i], center_id)}
        i    == CHOOSE k \in stop : \A j \in stop : k <= j
    IN  IF stop = {}
        THEN Response(404, "error", 0, 0, <<>>, <<>>,
                      <<"C", "e", "n", "t", "e", "r", " ", "w", "i", "t", "h", " ", "i", "d", " ">> \o center_id \o <<" ", "n", "o", "t", " ", "f", "o", "u", "n", "d">>)
        ELSE IF "id" \notin DOMAIN centers[i] THEN InternalError
        ELSE Response(200, "center", 0, 0, <<centers[i]>>, <<>>, <<>>)

\* "\r\n"
CRLF == <<"\r", "\n">>

\* name_lower equal to one of the field's segments, in place of `in`
MatchesToken(needle, field) ==
    \E k \in 1..Len(Split(field, CRLF)) :
        Lower(Strip(Split(field, CRLF)[k])) = Lower(needle)

\* name_lower in field.lower()
Matches(needle, field) == Contains(Lower(needle), Lower(field))

\* The test of search_centers on one record: "match", "nomatch", or "raise"
\* (KeyError).  `or` evaluates the next field only when the one before did
\* not match.
SearchOutcome(center, q) ==
    IF "Name" \notin DOMAIN center THEN "raise"
    ELSE IF Matches(q, center.Name) THEN "match"
    ELSE IF "Description" \notin DOMAIN center THEN "raise"
    ELSE IF Matches(q, center.Description) THEN "match"
    ELSE IF "Discipline" \notin DOMAIN center THEN "raise"
    ELSE IF Matches(q, center.Discipline) THEN "match"
    ELSE "nomatch"

\* The test of get_by_discipline / get_by_pathology on one record.
FieldOutcome(center, key, name) ==
    IF key \notin DOMAIN center THEN "raise"
    ELSE IF Matches(name, center[key]) THEN "match"
    ELSE "nomatch"

\* The envelope of a filter endpoint from the per-record outcomes.
Filtered(outcome) ==
    IF \E i \in 1..Len(centers) : outcome[i] = "raise" THEN InternalError
    ELSE LET idx  == {i \in 1..Len(centers) : outcome[i] = "match"}
             data == SelectSeq([i \in 1..Len(centers) |-> <<i, centers[i]>>],
                               LAMBDA p : p[1] \in idx)
         IN  Response(200, "filter", 0, Len(data),
                      [k \in 1..Len(data) |-> data[k][2]], <<>>, <<>>)

\* GET /search
search_centers(q) ==
    Filtered([i \in 1..Len(centers) |-> SearchOutcome(centers[i], q)])

\* GET /discipline
get_by_discipline(name) ==
    Filtered([i \in 1..Len(centers) |-> FieldOutcome(centers[i], "Discipline", name)])

\* GET /pathology
get_by_pathology(name) ==
    Filtered([i \in 1..Len(centers) |-> FieldOutcome(centers[i], "Pathologies", name)])

\* the inner loop without `if d:`
SegmentsKeepEmpty(field) ==
    {Strip(Split(field, CRLF)[k]) : k \in 1..Len(Split(field, CRLF))}

\* The inner loop of list_disciplines / list_pathologies on one field: the
\* stripped, non-empty segments of field.split("\r\n").
Segments(field) ==
    {Strip(Split(field, CRLF)[k]) : k \in 1..Len(Split(field, CRLF))} \ {<<>>}

ListTokens(key) ==
    IF \E i \in 1..Len(centers) : key \notin DOMAIN centers[i]
    THEN InternalError
    ELSE LET all == UNION {Segments(centers[i][key]) : i \in 1..Len(centers)}
         IN  Response(200, "tokens", 0, Cardinality(all), <<>>,
                      SortedStrs(all), <<>>)

\* GET /disciplines
list_disciplines == ListTokens("Discipline")

\* GET /pathologies
list_pathologies == ListTokens("Pathologies")

\* float(center["lat"]), float(center["lng"]) raise KeyError or ValueError
CoordsRaise(center) ==
    \/ "lat" \notin DOMAIN center
    \/ ~ParseFloat(center.lat).ok
    \/ "lng" \notin DOMAIN center
    \/ ~ParseFloat(center.lng).ok

\* distance = haversine_distance(lat, lng, center_lat, center_lng)
Distance(center, lat, lng) ==
    haversine_distance(lat, lng, ParseFloat(center.lat).val,
                       ParseFloat(center.lng).val)

\* distance < radius_km in place of <=
StrictlyWithin(distance, radius_km) == distance < radius_km

\* distance <= radius_km
WithinRadius(distance, radius_km) == distance <= radius_km

\* {**center, "distance_km": round(distance, 2)}
Annotated(center, distance) ==
    [k \in DOMAIN center \cup {"distance_km"} |->
        IF k = "distance_km" THEN Round2(distance) ELSE center[k]]

\* key=lambda x: -x["distance_km"]
DescendingKey(x) == 0 - x.distance_km

\* key=lambda x: x["distance_km"]
SortKey(x) == x.distance_km

\* list.sort(key=...) is stable: x goes after every element whose key is not
\* larger than its own.
RECURSIVE InsertByKey(_, _)
InsertByKey(sorted, x) ==
    IF sorted = <<>> THEN <<x>>
    ELSE IF SortKey(x) < SortKey(sorted[Len(sorted)])
         THEN Append(InsertByKey(SubSeq(sorted, 1, Len(sorted) - 1), x),
                     sorted[Len(sorted)])
         ELSE Append(sorted, x)

RECURSIVE SortByKey(_)
SortByKey(s) ==
    IF s = <<>> THEN <<>>
    ELSE InsertByKey(SortByKey(SubSeq(s, 1, Len(s) - 1)), s[Len(s)])

\* GET /nearby
get_nearby_centers(lat, lng, radius_km) ==
    IF \E i \in 1..Len(centers) : CoordsRaise(centers[i]) THEN InternalError
    ELSE LET kept    == SelectSeq(centers, LAMBDA c :
                            WithinRadius(Distance(c, lat, lng), radius_km))
             results == [k \in 1..Len(kept) |->
                            Annotated(kept[k], Distance(kept[k], lat, lng))]
         IN  Response(200, "nearby", 0, Len(results), SortByKey(results),
                      <<>>, <<>>)

\* center["distance_km"] = round(distance, 2) on the stored record
StoredInPlace(center, distance) == Annotated(center, distance)

\* What the loop of get_nearby_centers leaves in the stored record:
\* {**center, ...} builds a new dict, the record in `centers` is not
\* assigned to.
Stored(center, distance) == center

\* The endpoint function of request r, called with the defaults filled in.
Handle(r) ==
    CASE r.ep = "root"        -> root
      [] r.ep = "centers"     -> get_all_centers(Value(r.limit, DefaultLimit),
                                                 Value(r.offset, DefaultOffset))
      [] r.ep = "center"      -> get_center_by_id(r.id[1])
      [] r.ep = "search"      -> search_centers(r.q[1])
      [] r.ep = "discipline"  -> get_by_discipline(r.name[1])
      [] r.ep = "disciplines" -> list_disciplines
      [] r.ep = "pathology"   -> get_by_pathology(r.name[1])
      [] r.ep = "pathologies" -> list_pathologies
      [] r.ep = "nearby"      -> get_nearby_centers(r.lat[1], r.lng[1],
                                     Value(r.radius_km, Km(DefaultRadiusKm)))

\* The response to request r.
Respond(r) == IF Rejected(r) # <<>> THEN ValidationFault(Rejected(r)) ELSE Handle(r)

\* `centers` after request r.
CentersAfter(r) ==
    IF r.ep = "nearby" /\ Rejected(r) = <<>>
       /\ ~\E i \in 1..Len(centers) : CoordsRaise(centers[i])
    THEN [i \in 1..Len(centers) |->
            IF WithinRadius(Distance(centers[i], r.lat[1], r.lng[1]),
                            Value(r.radius_km, Km(DefaultRadiusKm)))
            THEN Stored(centers[i], Distance(centers[i], r.lat[1], r.lng[1]))
            ELSE centers[i]]
    ELSE centers

\* ------------------------------------------------------------------ inputs

Opt(S) == {<<>>} \cup {<<x>> : x \in S}

LimitInputs  == Opt({0, 1, 2, MaxLimit, MaxLimit + 1})
OffsetInputs == Opt({0 - 1, 1, MaxCenters, MaxCenters + 1})
IdInputs     == {Pool[i].id : i \in 1..Len(Pool)} \cup {<<"c">>, <<"c", "9">>}
QInputs      == Opt({<<"t">>, <<"t", "e">>, <<"T", "E", "N", "N", "I", "S">>, <<"b", "a", "s", "k", "e", "t">>, <<"c", "l", "u", "b">>,
                     <<"\r", "\n">>, <<"z", "z">>})
DisciplineInputs == Opt({<<>>, <<"t", "e", "n", "n", "i", "s">>, <<"T", "e", "n", "n", "i", "s", " ", "d", "e", " ", "t", "a", "b", "l", "e">>, <<"B", "A", "S", "K", "E", "T">>,
                         <<"y", "o", "g", "a", "\r", "\n">>, <<"z", "z">>})
PathologyInputs  == Opt({<<"c", "a", "n", "c", "e", "r">>, <<"D", "i", "a", "b", "e", "t", "e">>, <<"o", "b", "e", "s", "i", "t", "e", " ">>, <<"z", "z">>})
LatInputs    == Opt({4739000, 4759000})
LngInputs    == Opt({69000})
\* 0.5, 1, 50 and 500 km, the distance from (47.39, 0.69) to (47.59, 1.33),
\* and 501 km
RadiusInputs == Opt({5000, Km(MinRadiusKm), Km(DefaultRadiusKm), 529805,
                     Km(MaxRadiusKm), Km(MaxRadiusKm + 1)})

\* ----------------------------------------------------------------- service

ClientIdle ==
    /\ cpc = "off" /\ call = <<>> /\ gets = 0 /\ net = "none"
    /\ printed = FALSE /\ raised = FALSE

\* The service after a successful start on a Center-shaped dataset.
Init ==
    /\ centers \in Collections(MaxCenters)
    /\ source = [kind |-> "json", content |-> centers]
    /\ pc = "idle"
    /\ req = NoReq /\ resp = NoResp /\ prev = NoResp /\ handlerRan = FALSE
    /\ ClientIdle

\* One request, from its arrival to its response.
Serve(r) ==
    /\ req' = r
    /\ resp' = Respond(r)
    /\ handlerRan' = (Rejected(r) = <<>>)
    /\ centers' = CentersAfter(r)
    /\ prev' = NoResp
    /\ pc' = "responded"
    /\ UNCHANGED <<source, cpc, call, gets, net, printed, raised>>

Root ==
    /\ pc = "idle"
    /\ Serve(Req("root", <<>>, <<>>, <<>>, <<>>, <<>>, <<>>, <<>>, <<>>))

GetAllCenters ==
    /\ pc = "idle"
    /\ \E limit \in LimitInputs, offset \in OffsetInputs :
        Serve(Req("centers", limit, offset, <<>>, <<>>, <<>>, <<>>, <<>>, <<>>))

GetCenterById ==
    /\ pc = "idle"
    /\ \E id \in IdInputs :
        Serve(Req("center", <<>>, <<>>, <<id>>, <<>>, <<>>, <<>>, <<>>, <<>>))

SearchCenters ==
    /\ pc = "idle"
    /\ \E q \in QInputs :
        Serve(Req("search", <<>>, <<>>, <<>>, q, <<>>, <<>>, <<>>, <<>>))

GetByDiscipline ==
    /\ pc = "idle"
    /\ \E name \in DisciplineInputs :
        Serve(Req("discipline", <<>>, <<>>, <<>>, <<>>, name, <<>>, <<>>, <<>>))

ListDisciplines ==
    /\ pc = "idle"
    /\ Serve(Req("disciplines", <<>>, <<>>, <<>>, <<>>, <<>>, <<>>, <<>>, <<>>))

GetByPathology ==
    /\ pc = "idle"
    /\ \E name \in PathologyInputs :
        Serve(Req("pathology", <<>>, <<>>, <<>>, <<>>, name, <<>>, <<>>, <<>>))

ListPathologies ==
    /\ pc = "idle"
    /\ Serve(Req("pathologies", <<>>, <<>>, <<>>, <<>>, <<>>, <<>>, <<>>, <<>>))

GetNearbyCenters ==
    /\ pc = "idle"
    /\ \E lat \in LatInputs, lng \in LngInputs, radius_km \in RadiusInputs :
        Serve(Req("nearby", <<>>, <<>>, <<>>, <<>>, <<>>, lat, lng, radius_km))

\* The same request is issued again.
Repeat ==
    /\ pc = "responded"
    /\ prev' = resp
    /\ resp' = Respond(req)
    /\ handlerRan' = (Rejected(req) = <<>>)
    /\ centers' = CentersAfter(req)
    /\ pc' = "repeated"
    /\ UNCHANGED <<source, req, cpc, call, gets, net, printed, raised>>

\* The response has gone out; the service waits for the next request.
Deliver ==
    /\ pc \in {"responded", "repeated"}
    /\ pc' = "idle"
    /\ req' = NoReq /\ resp' = NoResp /\ prev' = NoResp /\ handlerRan' = FALSE
    /\ UNCHANGED <<source, centers, cpc, call, gets, net, printed, raised>>

Next ==
    \/ Root
    \/ GetAllCenters
    \/ GetCenterById
    \/ SearchCenters
    \/ GetByDiscipline
    \/ ListDisciplines
    \/ GetByPathology
    \/ ListPathologies
    \/ GetNearbyCenters
    \/ Repeat
    \/ Deliver

Spec == Init /\ [][Next]_vars

\* ---------------------------------------------------------------- start-up

\* sportsantecvl.json: absent, unreadable, not JSON, or JSON.
Sources ==
    {[kind |-> k, content |-> <<>>] : k \in {"missing", "unreadable", "malformed"}}
    \cup
    {[kind |-> "json", content |-> c] :
        c \in {<<>>, <<Pool[1]>>, <<Pool[1], Pool[3]>>}
              \cup {<<IllShaped[i]>> : i \in 1..Len(IllShaped)}
              \cup {<<Pool[1], IllShaped[i]>> : i \in 1..Len(IllShaped)}
              \cup {<<IllShaped[i], Pool[1]>> : i \in 1..Len(IllShaped)}}

InitLoad ==
    /\ source \in Sources
    /\ centers = <<>>
    /\ pc = "boot"
    /\ req = NoReq /\ resp = NoResp /\ prev = NoResp /\ handlerRan = FALSE
    /\ ClientIdle

\* centers = load_centers() at import: open() and json.load() raise on a
\* missing, unreadable or malformed file and the process ends; whatever
\* json.load returns is kept as it is.
LoadCenters ==
    /\ pc = "boot"
    /\ IF source.kind = "json"
       THEN centers' = source.content /\ pc' = "idle"
       ELSE pc' = "crashed" /\ UNCHANGED centers
    /\ UNCHANGED <<source, req, resp, prev, handlerRan,
                   cpc, call, gets, net, printed, raised>>

NextLoad == LoadCenters \/ Next

SpecLoad == InitLoad /\ [][NextLoad]_vars

\* ----------------------------------------------------------------- clients

\* str(n), n >= 0
RECURSIVE NatDigits(_)
NatDigits(n) ==
    IF n < 10 THEN <<DigitChars[n + 1]>>
    ELSE Append(NatDigits(n \div 10), DigitChars[(n % 10) + 1])

RECURSIVE TrimZeros(_)
TrimZeros(s) ==
    IF Len(s) > 1 /\ s[Len(s)] = "0" THEN TrimZeros(SubSeq(s, 1, Len(s) - 1))
    ELSE s

\* f"{x}" for a float x >= 0 given in 1e-5: "47.9", "0.69", "2.0"
FormatFloat(v) ==
    NatDigits(v \div 100000) \o <<".">>
        \o TrimZeros(SubSeq(NatDigits(100000 + (v % 100000)), 2, 6))

\* agent.py: city_coords, in dict order
Cities == <<
    [name |-> <<"t", "o", "u", "r", "s">>,       lat |-> 4739000, lng |-> 69000],
    [name |-> <<"o","r","l","é","a","n","s">>, lat |-> 4790000, lng |-> 191000],
    [name |-> <<"o", "r", "l", "e", "a", "n", "s">>,     lat |-> 4790000, lng |-> 191000],
    [name |-> <<"b", "o", "u", "r", "g", "e", "s">>,     lat |-> 4708000, lng |-> 240000],
    [name |-> <<"c", "h", "a", "r", "t", "r", "e", "s">>,    lat |-> 4845000, lng |-> 148000],
    [name |-> <<"b", "l", "o", "i", "s">>,       lat |-> 4759000, lng |-> 133000],
    [name |-> <<"c","h","â","t","e","a","u","r","o","u","x">>,
                               lat |-> 4681000, lng |-> 169000],
    [name |-> <<"c", "h", "a", "t", "e", "a", "u", "r", "o", "u", "x">>, lat |-> 4681000, lng |-> 169000],
    [name |-> <<"p", "a", "r", "i", "s">>,       lat |-> 4886000, lng |-> 235000] >>

NearWords == <<<<"p","r","è","s">>, <<"n", "e", "a", "r">>, <<"p", "r", "o", "c", "h", "e">>, <<"a", "r", "o", "u", "n", "d">>, <<"a", "u", "t", "o", "u", "r">>>>

Sports == <<<<"t", "e", "n", "n", "i", "s">>, <<"b", "a", "s", "k", "e", "t">>, <<"f", "o", "o", "t", "b", "a", "l", "l">>, <<"n", "a", "t", "a", "t", "i", "o", "n">>,
            <<"k","a","r","a","t","é">>, <<"k", "a", "r", "a", "t", "e">>, <<"b", "a", "d", "m", "i", "n", "t", "o", "n">>,
            <<"e", "s", "c", "a", "l", "a", "d", "e">>, <<"r","a","n","d","o","n","n","é","e">>,
            <<"c", "y", "c", "l", "i", "s", "m", "e">>, <<"d", "a", "n", "s", "e">>, <<"g", "y", "m", "n", "a", "s", "t", "i", "q", "u", "e">>, <<"y", "o", "g", "a">>,
            <<"c","a","n","o","ë">> >>

Pathologies == <<<<"c", "a", "n", "c", "e", "r">>, <<"d","i","a","b","è","t","e">>, <<"d", "i", "a", "b", "e", "t", "e">>,
                 <<"c", "a", "r", "d", "i", "o", "v", "a", "s", "c", "u", "l", "a", "i", "r", "e">>, <<"r", "e", "s", "p", "i", "r", "a", "t", "o", "i", "r", "e">>, <<"n", "e", "u", "r", "o">>,
                 <<"o","b","é","s","i","t","é">>, <<"o", "b", "e", "s", "i", "t", "e">>>>

\* The characters of the model outside ASCII.
NonAscii == {"é", "è", "ë", "â"}

\* any(word in q for word in words)
AnyIn(words, q) == \E k \in 1..Len(words) : Contains(words[k], q)

\* One invocation of a collaborator.  who: "agent" or "bridge"; text: the
\* question or the tool's text argument; q: question.lower(); tool: the
\* bridge tool or the agent's branch; i: position in the loop being run;
\* url: the endpoint handed to query_api / api_call.
Invocation(who, text, q, tool, i, url) ==
    [who |-> who, text |-> text, q |-> q, tool |-> tool, i |-> i, url |-> url]

Questions == {<<"T", "e", "n", "n", "i", "s", " ", "n", "e", "a", "r", " ", "T", "o", "u", "r", "s">>, <<"b", "a", "s", "k", "e", "t", " ", "o", "r", "l", "e", "a", "n", "s">>, <<"t", "o", "u", "r", "s">>, <<"Y", "o", "g", "a">>,
              <<"c", "a", "n", "c", "e", "r", " ", "d", "u", " ", "s", "e", "i", "n">>, <<"q", "u", "e", "l", "s", " ", "s", "p", "o", "r", "t", "s">>, <<"m", "a", "l", "a", "d", "i", "e">>,
              <<" ", " ", "p", "i", "s", "c", "i", "n", "e", " ">>, <<"a", "u", "t", "o", "u", "r", " ", "d", "e", " ", "b", "l", "o", "i", "s", " ", "e", "t", " ", "p", "a", "r", "i", "s">>,
              <<"n", "a", "t", "a", "t", "i", "o", "n", " ", "c", "a", "n", "c", "e", "r">>, <<>>}

InitClient ==
    /\ source = [kind |-> "json", content |-> <<>>]
    /\ centers = <<>> /\ pc = "idle"
    /\ req = NoReq /\ resp = NoResp /\ prev = NoResp /\ handlerRan = FALSE
    /\ ClientIdle

Service == <<source, centers, pc, req, resp, prev, handlerRan>>

\* agent(question): q = question.lower()
AgentStart ==
    /\ cpc = "off"
    /\ \E question \in Questions :
        call' = Invocation("agent", question, Lower(question), "", 1, <<>>)
    /\ cpc' = "cities"
    /\ UNCHANGED <<Service, gets, net, printed, raised>>

\* One turn of `for city, (lat, lng) in city_coords.items()`.
AgentCity ==
    /\ cpc = "cities"
    /\ IF call.i > Len(Cities)
       THEN cpc' = "sports" /\ call' = [call EXCEPT !.i = 1]
       ELSE IF /\ Contains(Cities[call.i].name, call.q)
               /\ AnyIn(NearWords, call.q)
       THEN /\ cpc' = "query_api"
            /\ call' = [call EXCEPT !.tool = "nearby",
                          !.url = <<"/", "n", "e", "a", "r", "b", "y", "?", "l", "a", "t", "=">>
                                  \o FormatFloat(Cities[call.i].lat)
                                  \o <<"&", "l", "n", "g", "=">>
                                  \o FormatFloat(Cities[call.i].lng)
                                  \o <<"&", "r", "a", "d", "i", "u", "s", "_", "k", "m", "=", "5", "0">>]
       ELSE cpc' = "cities" /\ call' = [call EXCEPT !.i = call.i + 1]
    /\ UNCHANGED <<Service, gets, net, printed, raised>>

\* One turn of `for sport in sports`.
AgentSport ==
    /\ cpc = "sports"
    /\ IF call.i > Len(Sports)
       THEN cpc' = "pathologies" /\ call' = [call EXCEPT !.i = 1]
       ELSE IF Contains(Sports[call.i], call.q)
       THEN /\ cpc' = "query_api"
            /\ call' = [call EXCEPT !.tool = "discipline",
                          !.url = <<"/", "d", "i", "s", "c", "i", "p", "l", "i", "n", "e", "?", "n", "a", "m", "e", "=">> \o Sports[call.i]]
       ELSE cpc' = "sports" /\ call' = [call EXCEPT !.i = call.i + 1]
    /\ UNCHANGED <<Service, gets, net, printed, raised>>

\* One turn of `for patho in pathologies`.
AgentPathology ==
    /\ cpc = "pathologies"
    /\ IF call.i > Len(Pathologies)
       THEN cpc' = "list_disciplines" /\ call' = [call EXCEPT !.i = 1]
       ELSE IF Contains(Pathologies[call.i], call.q)
       THEN /\ cpc' = "query_api"
            /\ call' = [call EXCEPT !.tool = "pathology",
                          !.url = <<"/", "p", "a", "t", "h", "o", "l", "o", "g", "y", "?", "n", "a", "m", "e", "=">> \o Pathologies[call.i]]
       ELSE cpc' = "pathologies" /\ call' = [call EXCEPT !.i = call.i + 1]
    /\ UNCHANGED <<Service, gets, net, printed, raised>>

\* if "discipline" in q or "sport" in q or "activit" in q
AgentListDisciplines ==
    /\ cpc = "list_disciplines"
    /\ IF AnyIn(<<<<"d", "i", "s", "c", "i", "p", "l", "i", "n", "e">>, <<"s", "p", "o", "r", "t">>, <<"a", "c", "t", "i", "v", "i", "t">>>>, call.q)
       THEN /\ cpc' = "query_api"
            /\ call' = [call EXCEPT !.tool = "disciplines",
                                    !.url = <<"/", "d", "i", "s", "c", "i", "p", "l", "i", "n", "e", "s">>]
       ELSE cpc' = "list_pathologies" /\ UNCHANGED call
    /\ UNCHANGED <<Service, gets, net, printed, raised>>

\* if "patholog" in q or "maladie" in q or "condition" in q
AgentListPathologies ==
    /\ cpc = "list_pathologies"
    /\ IF AnyIn(<<<<"p", "a", "t", "h", "o", "l", "o", "g">>, <<"m", "a", "l", "a", "d", "i", "e">>, <<"c", "o", "n", "d", "i", "t", "i", "o", "n">>>>, call.q)
       THEN /\ cpc' = "query_api"
            /\ call' = [call EXCEPT !.tool = "pathologies",
                                    !.url = <<"/", "p", "a", "t", "h", "o", "l", "o", "g", "i", "e", "s">>]
       ELSE cpc' = "default" /\ UNCHANGED call
    /\ UNCHANGED <<Service, gets, net, printed, raised>>

\* words = question.strip(); query_api(f"/search?q={words}")
AgentDefault ==
    /\ cpc = "default"
    /\ cpc' = "query_api"
    /\ call' = [call EXCEPT !.tool = "search",
                            !.url = <<"/", "s", "e", "a", "r", "c", "h", "?", "q", "=">> \o Strip(call.text)]
    /\ UNCHANGED <<Service, gets, net, printed, raised>>

\* query_api: requests.get, which percent-encodes the URL and raises when
\* the API is unreachable; raise_for_status raises on a non-success status.
QueryApi ==
    /\ cpc = "query_api"
    /\ gets' = gets + 1
    /\ \E outcome \in {"ok", "unreachable", "status"} :
        /\ net' = outcome
        /\ raised' = (outcome # "ok")
        /\ cpc' = IF outcome = "ok" THEN "print" ELSE "raised"
    /\ UNCHANGED <<Service, call, printed>>

\* The print loop of the branch, then `return` (or the end of agent()).
AgentPrint ==
    /\ cpc = "print"
    /\ printed' = TRUE
    /\ cpc' = "returned"
    /\ UNCHANGED <<Service, call, gets, net, raised>>

\* The tools of mcp_server.py with the endpoint each builds.
ToolCalls ==
    {Invocation("bridge", t, <<>>, "search_centers", 1, <<"/", "s", "e", "a", "r", "c", "h", "?", "q", "=">> \o t) :
        t \in {<<"t", "e", "n", "n", "i", "s">>, <<"T", "e", "n", "n", "i", "s", " ", "d", "e", " ", "t", "a", "b", "l", "e">>}}
    \cup
    {Invocation("bridge", <<>>, <<>>, "get_all_centers", 1,
                <<"/", "c", "e", "n", "t", "e", "r", "s", "?", "l", "i", "m", "i", "t", "=">> \o NatDigits(x[1]) \o <<"&", "o", "f", "f", "s", "e", "t", "=">> \o NatDigits(x[2])) :
        x \in {<<100, 0>>, <<2, 1>>}}
    \cup
    {Invocation("bridge", t, <<>>, "get_center_by_id", 1, <<"/", "c", "e", "n", "t", "e", "r", "s", "/">> \o t) :
        t \in {<<"c", "1">>, <<"c", "9">>}}
    \cup
    {Invocation("bridge", t, <<>>, "find_by_discipline", 1, <<"/", "d", "i", "s", "c", "i", "p", "l", "i", "n", "e", "?", "n", "a", "m", "e", "=">> \o t) :
        t \in {<<"T", "e", "n", "n", "i", "s">>, <<"K","a","r","a","t","é">>}}
    \cup
    {Invocation("bridge", t, <<>>, "find_by_pathology", 1, <<"/", "p", "a", "t", "h", "o", "l", "o", "g", "y", "?", "n", "a", "m", "e", "=">> \o t) :
        t \in {<<"C", "a", "n", "c", "e", "r">>, <<"d","i","a","b","è","t","e">>}}
    \cup
    {Invocation("bridge", <<>>, <<>>, "find_nearby", 1,
                <<"/", "n", "e", "a", "r", "b", "y", "?", "l", "a", "t", "=">> \o FormatFloat(x[1]) \o <<"&", "l", "n", "g", "=">> \o FormatFloat(x[2])
                    \o <<"&", "r", "a", "d", "i", "u", "s", "_", "k", "m", "=", "5", "0">>) :
        x \in {<<4739000, 69000>>, <<4790000, 191000>>}}
    \cup
    {Invocation("bridge", <<>>, <<>>, "list_disciplines", 1, <<"/", "d", "i", "s", "c", "i", "p", "l", "i", "n", "e", "s">>),
     Invocation("bridge", <<>>, <<>>, "list_pathologies", 1, <<"/", "p", "a", "t", "h", "o", "l", "o", "g", "i", "e", "s">>)}

\* A bridge tool is called.
ToolCall ==
    /\ cpc = "off"
    /\ \E c \in ToolCalls : call' = c
    /\ cpc' = "api_call"
    /\ UNCHANGED <<Service, gets, net, printed, raised>>

\* What http.client accepts as a request target: ASCII with no blank and no
\* control character.  api_call passes the endpoint unquoted.
Sendable(url) ==
    \A k \in 1..Len(url) : url[k] \notin Whitespace \cup NonAscii

\* api_call: urllib.request.urlopen.  It raises before anything is sent
\* when the URL is not sendable, URLError when the API is unreachable and
\* HTTPError on a non-success status.
ApiCall ==
    /\ cpc = "api_call"
    /\ IF ~Sendable(call.url)
       THEN /\ raised' = TRUE /\ cpc' = "raised"
            /\ UNCHANGED <<gets, net>>
       ELSE /\ gets' = gets + 1
            /\ \E outcome \in {"ok", "unreachable", "status"} :
                /\ net' = outcome
                /\ raised' = (outcome # "ok")
                /\ cpc' = IF outcome = "ok" THEN "dumps" ELSE "raised"
    /\ UNCHANGED <<Service, call, printed>>

\* return json.dumps(data, ensure_ascii=False, indent=2)
ToolReturn ==
    /\ cpc = "dumps"
    /\ printed' = TRUE
    /\ cpc' = "returned"
    /\ UNCHANGED <<Service, call, gets, net, raised>>

NextClient ==
    \/ AgentStart
    \/ AgentCity
    \/ AgentSport
    \/ AgentPathology
    \/ AgentListDisciplines
    \/ AgentListPathologies
    \/ AgentDefault
    \/ QueryApi
    \/ AgentPrint
    \/ ToolCall
    \/ ApiCall
    \/ ToolReturn

SpecClient == InitClient /\ [][NextClient]_vars

\* ================================================================== claims

\* what load_centers() returned
Loaded == source.content

Answered == pc \in {"responded", "repeated"}

\* the position in the Loaded collection of the record a result was made from
IndexOf(result) == CHOOSE i \in 1..Len(Loaded) : Loaded[i].id = result.id

\* needle occurs in hay when the case of letters is ignored
OccursIgnoringCase(needle, hay) ==
    \E i \in 0..(Len(hay) - Len(needle)) :
        \A j \in 1..Len(needle) : LowerChar(hay[i + j]) = LowerChar(needle[j])

\* C1: for limit in 1..500 and offset >= 0 (100 and 0 when not given),
\* GET /centers answers with the records at positions offset+1 .. of the
\* Loaded collection, min(limit, total - offset) of them, none when
\* offset >= total, and total is the size of the whole collection.
C1_PageIsSlice ==
    (/\ Answered /\ req.ep = "centers"
     /\ Value(req.limit, 100) \in 1..500
     /\ Value(req.offset, 0) >= 0)
    => /\ resp.status = 200
       /\ resp.total = Len(Loaded)
       /\ Len(resp.data) =
            IF Value(req.offset, 0) >= Len(Loaded) THEN 0
            ELSE Min(Value(req.limit, 100), Len(Loaded) - Value(req.offset, 0))
       /\ \A k \in 1..Len(resp.data) :
            resp.data[k] = Loaded[Value(req.offset, 0) + k]

\* C1: a page that starts inside the collection and is cut by the limit.
C1_Witness ==
    /\ Answered /\ req.ep = "centers"
    /\ req.limit = <<1>> /\ req.offset = <<1>>
    /\ Len(Loaded) = 3
    /\ resp.data = <<Loaded[2]>> /\ resp.total = 3

\* C2: GET /centers/{id} answers an id of the collection with a record whose
\* id is the one asked for, and any other id with 404 (not the validation
\* status 422), the id in the message and no record.
C2_LookupRoundTrips ==
    (Answered /\ req.ep = "center")
    => IF \E i \in 1..Len(Loaded) : Loaded[i].id = req.id[1]
       THEN /\ resp.status = 200
            /\ Len(resp.data) = 1
            /\ resp.data[1].id = req.id[1]
            /\ \E i \in 1..Len(Loaded) : Loaded[i] = resp.data[1]
       ELSE /\ resp.status = 404
            /\ resp.kind = "error"
            /\ resp.data = <<>>
            /\ Contains(req.id[1], resp.detail)

\* C2: an id that is in no record, though it is part of every stored id.
C2_Witness ==
    /\ Answered /\ req.ep = "center" /\ req.id = << <<"c">> >>
    /\ Len(Loaded) = 3
    /\ resp.status = 404

\* the raw fields a filter endpoint looks into
FilterFields(ep) ==
    CASE ep = "search"     -> {"Name", "Description", "Discipline"}
      [] ep = "discipline" -> {"Discipline"}
      [] ep = "pathology"  -> {"Pathologies"}

FilterNeedle == IF req.ep = "search" THEN req.q[1] ELSE req.name[1]

\* C3: search, by_discipline and by_pathology answer with exactly the
\* records in which the keyword occurs, case ignored, somewhere in the raw
\* field(s), in collection order, and count is the number of records.
C3_FilterIsContainment ==
    (/\ Answered /\ req.ep \in {"search", "discipline", "pathology"}
     /\ IF req.ep = "search" THEN Given(req.q) /\ Len(req.q[1]) >= 2
                             ELSE Given(req.name))
    => /\ resp.status = 200
       /\ resp.data = SelectSeq(Loaded, LAMBDA c :
                         \E f \in FilterFields(req.ep) :
                             OccursIgnoringCase(FilterNeedle, c[f]))
       /\ resp.count = Len(resp.data)

\* C3: "tennis" finds the record whose Discipline is "Tennis de table\r\nYoga".
C3_Witness ==
    /\ Answered /\ req.ep = "discipline"
    /\ req.name = << <<"t", "e", "n", "n", "i", "s">> >>
    /\ \E k \in 1..Len(resp.data) : resp.data[k] = Pool[3]
    /\ Len(resp.data) < Len(Loaded)

TokenKey == IF req.ep = "disciplines" THEN "Discipline" ELSE "Pathologies"

\* C4: list_disciplines and list_pathologies answer with the stripped,
\* non-empty segments of every record's field split on "\r\n": each once,
\* none empty, in ascending code-point order, and count is their number.
C4_TokensAreSortedSet ==
    (Answered /\ req.ep \in {"disciplines", "pathologies"})
    => /\ resp.status = 200
       /\ resp.count = Len(resp.items)
       /\ \A k \in 1..Len(resp.items) :
            /\ resp.items[k] # <<>>
            /\ resp.items[k][1] \notin Whitespace
            /\ resp.items[k][Len(resp.items[k])] \notin Whitespace
            /\ ~Contains(CRLF, resp.items[k])
       /\ \A k \in 1..(Len(resp.items) - 1) :
            StrLess(resp.items[k], resp.items[k + 1])
       /\ {resp.items[k] : k \in 1..Len(resp.items)} =
            {Strip(seg) :
                seg \in UNION {{Split(Loaded[i][TokenKey], CRLF)[n] :
                                   n \in 1..Len(Split(Loaded[i][TokenKey], CRLF))} :
                               i \in 1..Len(Loaded)}} \ {<<>>}

\* C4: "Tennis\r\nBasket\r\n" and "Tennis\r\n" give ["Basket", "Tennis"].
C4_Witness ==
    /\ Answered /\ req.ep = "disciplines"
    /\ Len(Loaded) = 2
    /\ Loaded[1].Discipline = <<"T","e","n","n","i","s","\r","\n",
                                "B","a","s","k","e","t","\r","\n">>
    /\ Loaded[2].Discipline = <<"T","e","n","n","i","s","\r","\n">>
    /\ resp.items = << <<"B","a","s","k","e","t">>, <<"T","e","n","n","i","s">> >>
    /\ resp.count = 2

NearbyValid ==
    /\ Answered /\ req.ep = "nearby"
    /\ Given(req.lat) /\ Given(req.lng)
    /\ Value(req.radius_km, Km(50)) >= Km(1)
    /\ Value(req.radius_km, Km(50)) <= Km(500)

\* the distance computed for the record at position i of the collection
DistanceTo(i) == Distance(Loaded[i], req.lat[1], req.lng[1])

\* C5: nearby answers with exactly the records whose distance is <= radius,
\* each with distance_km = round(distance, 2), distance_km never decreasing
\* along data, and records of equal distance_km in collection order.
C5_NearbyWithinRadiusSortedStable ==
    NearbyValid
    => /\ resp.status = 200
       /\ Len(resp.data) =
            Cardinality({i \in 1..Len(Loaded) :
                            DistanceTo(i) <= Value(req.radius_km, Km(50))})
       /\ \A i \in 1..Len(Loaded) :
            DistanceTo(i) <= Value(req.radius_km, Km(50))
            => \E k \in 1..Len(resp.data) :
                 /\ resp.data[k].distance_km = Round2(DistanceTo(i))
                 /\ \A f \in CenterKeys : resp.data[k][f] = Loaded[i][f]
       /\ \A k, l \in 1..Len(resp.data) :
            k < l => /\ resp.data[k].distance_km <= resp.data[l].distance_km
                     /\ resp.data[k].distance_km = resp.data[l].distance_km
                        => IndexOf(resp.data[k]) < IndexOf(resp.data[l])

\* C5: the radius is exactly the distance of the last result, and the two
\* results before it have the same distance_km.
C5_Witness ==
    /\ NearbyValid
    /\ Given(req.radius_km)
    /\ Len(resp.data) = 3
    /\ resp.data[1].distance_km = resp.data[2].distance_km
    /\ resp.data[2].distance_km < resp.data[3].distance_km
    /\ DistanceTo(IndexOf(resp.data[3])) = req.radius_km[1]

\* the record at position i lies exactly at the query point
AtQueryPoint(i) ==
    /\ ParseFloat(Loaded[i].lat).val = req.lat[1]
    /\ ParseFloat(Loaded[i].lng).val = req.lng[1]

\* C6 as stated: when a center lies exactly at the query point, the first
\* result is a center at the query point, with distance_km = 0.0.
C6_ExactCenterFirst ==
    (NearbyValid /\ \E i \in 1..Len(Loaded) : AtQueryPoint(i))
    => /\ Len(resp.data) >= 1
       /\ resp.data[1].distance_km = 0
       /\ AtQueryPoint(IndexOf(resp.data[1]))

\* C6 amended: a center exactly at the query point is in data with
\* distance_km = 0.0; every result before it also has distance_km = 0.0 and
\* comes before it in the collection; it is first when no center earlier in
\* the collection has a distance that rounds to 0.00.
C6_ExactCenterAmongZeros ==
    NearbyValid
    => \A i \in 1..Len(Loaded) :
         AtQueryPoint(i)
         => \E k \in 1..Len(resp.data) :
              /\ resp.data[k].id = Loaded[i].id
              /\ resp.data[k].distance_km = 0
              /\ \A j \in 1..(k - 1) :
                   /\ resp.data[j].distance_km = 0
                   /\ IndexOf(resp.data[j]) < i
              /\ (\A h \in 1..(i - 1) : Round2(DistanceTo(h)) # 0) => k = 1

\* C6: the center at the query point comes second, after a center 3 m away
\* that is earlier in the collection, and before a center farther away.
C6_Witness ==
    /\ NearbyValid
    /\ Len(resp.data) = 3
    /\ AtQueryPoint(IndexOf(resp.data[2]))
    /\ ~AtQueryPoint(IndexOf(resp.data[1]))
    /\ resp.data[1].distance_km = 0
    /\ resp.data[3].distance_km > 0

\* the request misses a required parameter or has one out of range
OutOfContract ==
    \/ req.ep = "centers"
       /\ \/ Given(req.limit) /\ (req.limit[1] < 1 \/ req.limit[1] > 500)
          \/ Given(req.offset) /\ req.offset[1] < 0
    \/ req.ep = "search" /\ (req.q = <<>> \/ Len(req.q[1]) < 2)
    \/ req.ep \in {"discipline", "pathology"} /\ req.name = <<>>
    \/ req.ep = "nearby"
       /\ \/ req.lat = <<>>
          \/ req.lng = <<>>
          \/ Given(req.radius_km)
             /\ (req.radius_km[1] < Km(1) \/ req.radius_km[1] > Km(500))

\* C7: a request is answered 422 exactly when a required parameter is
\* missing or a parameter is out of range; the endpoint function is then
\* not entered and the response carries no data.
C7_RejectedBeforeDataset ==
    Answered
    => /\ OutOfContract <=> resp.status = 422
       /\ OutOfContract => /\ ~handlerRan
                           /\ resp.kind = "error"
                           /\ resp.data = <<>> /\ resp.items = <<>>
       /\ ~OutOfContract => handlerRan /\ resp.status \in {200, 404}

\* C7: limit = 501 is rejected.
C7_Witness ==
    /\ Answered /\ req.ep = "centers" /\ req.limit = <<501>>
    /\ Len(Loaded) = 3
    /\ resp.status = 422 /\ ~handlerRan

\* C8: the collection stays as Loaded, no stored record gets a distance_km,
\* and a repeated request gets the response it got before.
C8_CollectionImmutable ==
    /\ centers = Loaded
    /\ \A i \in 1..Len(centers) : "distance_km" \notin DOMAIN centers[i]
    /\ pc = "repeated" => resp = prev

\* C8: a nearby request with results has been repeated.
C8_Witness ==
    /\ pc = "repeated" /\ req.ep = "nearby"
    /\ Len(resp.data) = 3
    /\ "distance_km" \in DOMAIN resp.data[1]

\* a record of the Center shape with numeric coordinates
CenterShaped(c) ==
    /\ CenterKeys \subseteq DOMAIN c
    /\ ParseFloat(c.lat).ok /\ ParseFloat(c.lng).ok

\* C9: the service takes requests only with a dataset that was read and is
\* a sequence of Center-shaped records; otherwise the process has ended.
C9_NoServiceOnIllShapedData ==
    pc \in {"idle", "responded", "repeated"}
    => /\ source.kind = "json"
       /\ centers = source.content
       /\ \A i \in 1..Len(centers) : CenterShaped(centers[i])

\* C10: an invocation that has ended issued exactly one GET, none issues
\* more than one, and after a failed GET the error reached the caller and
\* nothing was rendered.
C10_ExactlyOneGet ==
    /\ gets <= 1
    /\ cpc \in {"returned", "raised"} => gets = 1
    /\ net \in {"unreachable", "status"} => cpc = "raised" /\ raised /\ ~printed
    /\ cpc = "returned" => net = "ok" /\ printed /\ ~raised

====
